---- MODULE Spec2Model ----
(***************************************************************************)
(* Model of totk-dump (src/src/main.rs): Unpacker::init_dicts,             *)
(* Unpacker::decompress, Unpacker::write_byml and Unpacker::unpack.        *)
(*                                                                         *)
(* A file name is the sequence of its dot-separated components, so that    *)
(* "a.byml.zs" is <<"a", "byml", "zs">>; a path is a sequence of names.    *)
(* Data is a tagged record: raw bytes, a zstd frame (its compressed        *)
(* length, the dictionary it needs and its payload) or a SARC archive      *)
(* (its members).  Bytes are numbers 0..255.                               *)
(***************************************************************************)
EXTENDS Integers, Sequences, FiniteSets, TLC

\* ---------------------------------------------------------------- bounds
\* Most top-level files one run discovers.
MaxFiles == 3
\* Size of the rayon worker pool.
NumWorkers == 2
\* Longest blob (a run of equal bytes) the round-trip specification draws.
MaxBlobLen == 60
\* Largest compressed length the round-trip specification draws.
MaxCompLen == 2
\* Longest entry the write_byml specification draws.
MaxEntryLen == 5
\* Most top-level files of a run under the fair scheduler.
MaxContenders == 2

\* ------------------------------------------------------- program constants
COMPRESSION_LEVEL == 15

\* Multiplier of the single attempt of init_dicts (data.len() * 15).
BootstrapMultiplier == 15

Categories == {"Default", "Common", "Pack", "Map"}

\* ------------------------------------------------------------ names, paths
\* name.ends_with(".s1.s2"): the suffix starts with a dot, so at least one
\* component (possibly empty) precedes it.
EndsWith(name, suffix) ==
    /\ Len(name) > Len(suffix)
    /\ SubSeq(name, Len(name) - Len(suffix) + 1, Len(name)) = suffix

\* Whether std::path treats the last component of the file name as an
\* extension: a name without a dot, or with only a leading dot, has none.
HasExtension(name) ==
    /\ Len(name) >= 2
    /\ ~(Len(name) = 2 /\ name[1] = "")

ButLast(s) == SubSeq(s, 1, Len(s) - 1)

Last(s) == s[Len(s)]

\* PathBuf::with_extension(ext) applied to the file name: the last extension
\* only is replaced; a name without extension gets one.
NameWithExtension(name, ext) ==
    IF HasExtension(name) THEN Append(ButLast(name), ext) ELSE Append(name, ext)

WithExtension(path, ext) ==
    Append(ButLast(path), NameWithExtension(Last(path), ext))

\* PathBuf::set_extension(""): the last extension, if any, is removed.
StripExtension(path) ==
    IF HasExtension(Last(path))
    THEN Append(ButLast(path), ButLast(Last(path)))
    ELSE path

\* Path::join for a relative member name.
Join(path, name) == Append(path, name)

\* ------------------------------------------------------------------- data
Raw(bytes) == [kind |-> "raw", bytes |-> bytes]

Frame(clen, dict, payload) ==
    [kind |-> "zstd", clen |-> clen, dict |-> dict, payload |-> payload]

Sarc(members) == [kind |-> "sarc", members |-> members]

\* A member of an archive; named = FALSE is a member without a name.
Member(named, name, data) == [named |-> named, name |-> name, data |-> data]

\* data.len(): a frame is as long as its compressed length, an archive is
\* longer than any signature looked for.
DataLen(d) ==
    CASE d.kind = "raw" -> Len(d.bytes)
      [] d.kind = "zstd" -> d.clen
      [] OTHER -> 20

\* The first n bytes of the data (fewer when it is shorter).  A frame and an
\* archive start with their own magic, which is none of the signatures the
\* program looks for; it is modelled as zero bytes.
Prefix(d, n) ==
    LET m == IF DataLen(d) < n THEN DataLen(d) ELSE n
    IN IF d.kind = "raw" THEN SubSeq(d.bytes, 1, m) ELSE [k \in 1..m |-> 0]

SigBY == <<66, 89>>

SigYB == <<89, 66>>

SigAAMP == <<65, 65, 77, 80>>

SigMsgStdBn == <<77, 115, 103, 83, 116, 100, 66, 110>>

Contains(bytes, b) == \E k \in 1..Len(bytes) : bytes[k] = b

Ok(v) == [ok |-> TRUE, val |-> v]

Err(e) == [ok |-> FALSE, err |-> e]

\* ------------------------------------------------- collaborators (codecs)
\* zstd::bulk::Decompressor::decompress(data, capacity) on a context whose
\* bound dictionary is dict ("none" when no dictionary is bound): it succeeds
\* exactly when the data is a frame made with that dictionary and the
\* capacity holds the whole content, and it then returns the whole content.
CodecDecompress(dict, d, capacity) ==
    IF d.kind # "zstd" THEN Err("UnknownFrameDescriptor")
    ELSE IF d.dict # dict THEN Err("DictionaryMismatch")
    ELSE IF capacity < DataLen(d.payload) THEN Err("DestinationBufferTooSmall")
    ELSE Ok(d.payload)

\* Sarc::new(data)
SarcNew(d) == IF d.kind = "sarc" THEN Ok(d) ELSE Err("InvalidSarc")

\* sarc.get_data(name)
SarcGetData(sarc, name) ==
    LET hits == {k \in 1..Len(sarc.members) :
                    sarc.members[k].named /\ sarc.members[k].name = name}
    IN IF hits = {} THEN Err("missing")
       ELSE Ok(sarc.members[CHOOSE k \in hits : \A j \in hits : k <= j].data)

\* Variant: the members without a name are not filtered out.
AllMembers(sarc) == sarc.members

\* sarc.files().filter(|f| f.name().is_some())
NamedMembers(sarc) == SelectSeq(sarc.members, LAMBDA m : m.named)

\* The decoders are black boxes of which the program reads success or
\* failure only.  Here a body holding byte 255 does not decode, and a decoded
\* tree holding byte 254 does not serialize.
BodyOf(bytes, from) == SubSeq(bytes, from, Len(bytes))

\* Byml::from_binary(&data)
BymlFromBinary(bytes) ==
    IF Len(bytes) < 4 \/ Contains(BodyOf(bytes, 5), 255)
    THEN Err("InvalidByml")
    ELSE Ok([format |-> "byml", head |-> SubSeq(bytes, 1, 4),
             body |-> BodyOf(bytes, 5)])

\* roead::aamp::ParameterIO::from_binary(file.data)
AampFromBinary(bytes) ==
    IF Contains(BodyOf(bytes, 5), 255)
    THEN Err("InvalidAamp")
    ELSE Ok([format |-> "aamp", body |-> BodyOf(bytes, 5)])

\* msyt::Msyt::from_msbt_bytes(file.data)
MsytFromMsbtBytes(bytes) ==
    IF Contains(BodyOf(bytes, 9), 255)
    THEN Err("Failed to parse MSBT")
    ELSE Ok([format |-> "msbt", body |-> BodyOf(bytes, 9)])

\* serde_yaml::to_string(&tree)
ToYaml(tree) ==
    IF Contains(tree.body, 254) THEN Err("SerializeError")
    ELSE Ok([kind |-> "yaml", tree |-> tree])

\* file.is_aamp()
IsAamp(d) == Prefix(d, 4) = SigAAMP

\* file.data.starts_with(b"MsgStdBn")
IsMsbt(d) == Prefix(d, 8) = SigMsgStdBn

\* --------------------------------------------------- Unpacker::decompress
\* Variant: the last branch of the selection takes the dictionary-free
\* context.
CategoryOfDefaultElse(name) ==
    IF EndsWith(name, <<"bcett", "byml", "zs">>) THEN "Map"
    ELSE IF EndsWith(name, <<"pack", "zs">>) THEN "Pack"
    ELSE "Default"

\* The context decompress locks for a file name (main.rs 73-81).
CategoryOf(name) ==
    IF EndsWith(name, <<"bcett", "byml", "zs">>) THEN "Map"
    ELSE IF EndsWith(name, <<"pack", "zs">>) THEN "Pack"
    ELSE IF EndsWith(name, <<"rsizetable", "zs">>) THEN "Default"
    ELSE "Common"

\* for i in 2..(COMPRESSION_LEVEL * 2): the first multiplier and the
\* (exclusive) end of the range.
RetryStart == 2

\* Mutant of RetryEnd: the range doubled as COMPRESSION_LEVEL * 3.
RetryEndTooFar == COMPRESSION_LEVEL * 3

RetryEnd == COMPRESSION_LEVEL * 2

\* Mutant of Capacity: the multiplier is left out.
CapacityNoMultiplier(d, i) == DataLen(d)

\* The capacity offered by attempt i: data.len() * i.
Capacity(d, i) == DataLen(d) * i

\* ---------------------------------------------------- Unpacker::write_byml
\* Whether match &data[..2] or the marker write index out of the data.
IndexPanics(d) ==
    \/ DataLen(d) < 2
    \/ Prefix(d, 2) = SigBY /\ DataLen(d) < 4
    \/ Prefix(d, 2) = SigYB /\ DataLen(d) < 3

HasBymlSignature(d) == Prefix(d, 2) \in {SigBY, SigYB}

\* Mutant of Normalize: the "BY" marker is written one index too low.
NormalizeWrongIndex(bytes) ==
    IF SubSeq(bytes, 1, 2) = SigBY THEN [bytes EXCEPT ![3] = 4]
    ELSE IF SubSeq(bytes, 1, 2) = SigYB THEN [bytes EXCEPT ![3] = 2]
    ELSE bytes

\* Variant: the marker byte is flipped between the two values instead of
\* being set.
NormalizeToggle(bytes) ==
    IF SubSeq(bytes, 1, 2) = SigBY
    THEN [bytes EXCEPT ![4] = IF @ = 4 THEN 2 ELSE 4]
    ELSE IF SubSeq(bytes, 1, 2) = SigYB
    THEN [bytes EXCEPT ![3] = IF @ = 2 THEN 4 ELSE 2]
    ELSE bytes

\* b"BY" => data[3] = 4, b"YB" => data[2] = 2 (indices from 0 in the source,
\* from 1 here).
Normalize(bytes) ==
    IF SubSeq(bytes, 1, 2) = SigBY THEN [bytes EXCEPT ![4] = 4]
    ELSE IF SubSeq(bytes, 1, 2) = SigYB THEN [bytes EXCEPT ![3] = 2]
    ELSE bytes

\* self.output.join(relative).with_extension("yml")
DecodedPath(rel) == WithExtension(rel, "yml")

\* The path of the raw fallback: the .zs extension alone is removed.
FallbackPath(rel) ==
    IF EndsWith(Last(rel), <<"zs">>) THEN StripExtension(rel) ELSE rel

\* ------------------------------------------------------- Unpacker::unpack
IsBymlName(name) ==
    EndsWith(name, <<"byml", "zs">>) \/ EndsWith(name, <<"bgyml">>)

IsArchiveName(name) ==
    EndsWith(name, <<"pack", "zs">>) \/ EndsWith(name, <<"sarc", "zs">>)

\* fs::write(path, data) on the output tree: a later write replaces an
\* earlier one at the same path.
FsWrite(tree, path, data) ==
    {e \in tree : e.path # path} \cup {[path |-> path, data |-> data]}

\* ------------------------------------------------------------ the inputs
NoDict == Raw(<<>>)

DictZs == Raw(<<1>>)

DictPack == Raw(<<2>>)

DictMap == Raw(<<3>>)

NameZsDic == <<"zs", "zsdic">>

NamePackDic == <<"pack", "zsdic">>

NameMapDic == <<"bcett", "byml", "zsdic">>

\* Pack/ZsDic.pack.zs as the source tree may hold it.
BootFile(readable, data) == [readable |-> readable, data |-> data]

BootMembers ==
    <<Member(TRUE, NameZsDic, DictZs), Member(TRUE, NamePackDic, DictPack),
      Member(TRUE, NameMapDic, DictMap)>>

Bootstraps ==
    { BootFile(TRUE, Frame(2, NoDict, Sarc(BootMembers))),
      BootFile(FALSE, Raw(<<>>)),
      BootFile(TRUE, Frame(1, NoDict, Sarc(BootMembers))),
      BootFile(TRUE, Frame(2, NoDict, Raw(<<7, 7>>))),
      BootFile(TRUE, Frame(2, NoDict, Sarc(SubSeq(BootMembers, 1, 2)))),
      BootFile(TRUE, Frame(2, NoDict, Sarc(SubSeq(BootMembers, 2, 3)))) }

\* Entry contents: a structured entry of either orientation, one whose body
\* does not decode, one whose tree does not serialize, one with another
\* signature, one too short for the signature test, and a long one.
GoodBY == <<66, 89, 0, 7, 1, 2>>

GoodYB == <<89, 66, 7, 0, 3>>

CorruptBY == <<66, 89, 0, 7, 255>>

CorruptYB == <<89, 66, 7, 0, 255>>

NoYamlBY == <<66, 89, 0, 4, 254>>

OtherSig == <<1, 2, 3, 4>>

TooShort == <<66>>

LongBY == GoodBY \o [k \in 1..24 |-> 0]

File(name, readable, data) ==
    [name |-> name, readable |-> readable, data |-> data]

PackB ==
    Sarc(<<Member(TRUE, <<"inner", "byml", "zs">>, Frame(2, DictZs, Raw(GoodYB))),
           Member(FALSE, <<>>, Raw(<<8>>)),
           Member(TRUE, <<"u", "bgyml">>, Raw(OtherSig)),
           Member(TRUE, <<"y", "byml", "zs">>, Frame(3, DictZs, Raw(NoYamlBY))),
           Member(TRUE, <<"raw", "bin">>, Raw(<<9, 9>>))>>)

PackK ==
    Sarc(<<Member(TRUE, <<"x", "bgyml">>, Raw(CorruptBY)),
           Member(TRUE, <<"bad", "byml", "zs">>, Frame(2, DictZs, Raw(CorruptYB))),
           Member(TRUE, <<"t", "msbt">>, Raw(SigMsgStdBn \o <<255>>)),
           Member(TRUE, <<"h", "msbt">>, Raw(SigMsgStdBn \o <<254>>)),
           Member(TRUE, <<"n", "bin", "zs">>, Frame(1, DictZs, Raw(<<4, 4>>))),
           Member(TRUE, <<"in", "pack", "zs">>, Frame(2, DictPack, Sarc(<<>>))),
           Member(TRUE, <<"g", "msbt">>, Raw(SigMsgStdBn \o <<5>>)),
           Member(TRUE, <<"p", "bprm">>, Raw(SigAAMP \o <<6>>)),
           Member(TRUE, <<"q", "bprm">>, Raw(SigAAMP \o <<255>>)),
           Member(TRUE, <<"late", "bin">>, Raw(<<3>>))>>)

Catalog ==
    << File(<<"a", "byml", "zs">>, TRUE, Frame(3, DictZs, Raw(GoodBY))),
       File(<<"b", "pack", "zs">>, TRUE, Frame(4, DictPack, PackB)),
       File(<<"c", "bin">>, TRUE, Raw(<<5, 6>>)),
       File(<<"m", "bcett", "byml", "zs">>, TRUE, Frame(1, DictMap, Raw(LongBY))),
       File(<<"e", "byml", "zs">>, FALSE, Raw(<<>>)),
       File(<<"s", "bgyml">>, TRUE, Raw(TooShort)),
       File(<<"k", "sarc", "zs">>, TRUE, Frame(2, DictZs, PackK)) >>

FileIds == 1..Len(Catalog)

\* ------------------------------------------------------------------ state
VARIABLES
    mainpc,     \* where the main thread is: init_dicts, unpack, its end
    bootstrap,  \* the bootstrap archive of the source tree
    bound,      \* the dictionary bound to each category's context
    lock,       \* the file whose task holds each category's mutex, or 0
    files,      \* the files the walk discovered (indices of Catalog)
    task,       \* per discovered file: the state of its closure call
    stop,       \* try_for_each has seen an Err: no further item is started
    out,        \* the output tree: a set of [path, data]
    warnings,   \* the WARNING lines printed, as [kind, rel]
    events,     \* what each entry ended as (history, read by no action)
    binds       \* set_dictionary calls made per category (history)

vars ==
    <<mainpc, bootstrap, bound, lock, files, task, stop, out, warnings, events,
      binds>>

Queued ==
    [pc |-> "queued", name |-> <<>>, rel |-> <<>>, base |-> <<>>,
     data |-> Raw(<<>>), ret |-> "none", ctx |-> "file", i |-> 0,
     lastErr |-> "none", tried |-> <<>>, call |-> Raw(<<>>), res |-> "none",
     members |-> <<>>, err |-> [msg |-> "none", cause |-> "none"]]

Init ==
    /\ mainpc = "init_open"
    /\ bootstrap \in Bootstraps
    /\ bound = [c \in Categories |-> NoDict]
    /\ lock = [c \in Categories |-> 0]
    /\ files \in {S \in SUBSET FileIds : Cardinality(S) <= MaxFiles}
    /\ task = [f \in files |-> Queued]
    /\ stop = FALSE
    /\ out = {}
    /\ warnings = {}
    /\ events = {}
    /\ binds = [c \in Categories |-> 0]

\* -------------------------------------------------- Unpacker::init_dicts
\* fs::read of the bootstrap archive, the single decompress attempt on the
\* dictionary-free context and Sarc::new (main.rs 51-56).
BootstrapSarc ==
    IF ~bootstrap.readable THEN Err("io")
    ELSE LET r == CodecDecompress(bound["Default"], bootstrap.data,
                                  DataLen(bootstrap.data) * BootstrapMultiplier)
         IN IF r.ok THEN SarcNew(r.val) ELSE r

InitDictsOpen ==
    /\ mainpc = "init_open"
    /\ lock["Default"] = 0
    /\ mainpc' = IF BootstrapSarc.ok THEN "bind_common" ELSE "init_failed"
    /\ UNCHANGED <<bootstrap, bound, binds, lock, files, task, stop, out, warnings, events>>

\* Variant: a dictionary missing from the bootstrap archive is skipped.
BindStepLenient(at, member, category, next) ==
    /\ mainpc = at
    /\ lock[category] = 0
    /\ LET blob == SarcGetData(BootstrapSarc.val, member)
       IN IF blob.ok
          THEN /\ bound' = [bound EXCEPT ![category] = blob.val]
               /\ binds' = [binds EXCEPT ![category] = @ + 1]
          ELSE UNCHANGED <<bound, binds>>
    /\ mainpc' = next
    /\ UNCHANGED <<bootstrap, lock, files, task, stop, out, warnings, events>>

\* sarc.get_data(member).context(..)? and set_dictionary on the category's
\* context (main.rs 57-68).
BindStep(at, member, category, next) ==
    /\ mainpc = at
    /\ lock[category] = 0
    /\ LET blob == SarcGetData(BootstrapSarc.val, member)
       IN IF blob.ok
          THEN /\ bound' = [bound EXCEPT ![category] = blob.val]
               /\ binds' = [binds EXCEPT ![category] = @ + 1]
               /\ mainpc' = next
          ELSE /\ mainpc' = "init_failed"
               /\ UNCHANGED <<bound, binds>>
    /\ UNCHANGED <<bootstrap, lock, files, task, stop, out, warnings, events>>

BindCommon == BindStep("bind_common", NameZsDic, "Common", "bind_pack")

\* Variant: the pack dictionary is set on the general context again.
BindPackIntoCommon == BindStep("bind_pack", NamePackDic, "Common", "bind_map")

BindPack == BindStep("bind_pack", NamePackDic, "Pack", "bind_map")

BindMap == BindStep("bind_map", NameMapDic, "Map", "unpack")

\* ------------------------------------------------------------ task steps
Terminal == {"ok", "err", "panic"}

Active(f) == task[f].pc \notin Terminal \cup {"queued"}

ActiveCount == Cardinality({f \in files : Active(f)})

\* The closure returns Err(e): the item ends and try_for_each stops.
Failed(rec, msg, cause) ==
    [rec EXCEPT !.pc = "err", !.err = [msg |-> msg, cause |-> cause]]

\* The call of write_byml(data, rel): a .zs name is decompressed first
\* (main.rs 96-99).
WriteBymlCall(rec, data, rel, ctx) ==
    LET r == [rec EXCEPT !.name = Last(rel), !.rel = rel, !.data = data,
                         !.ctx = ctx]
    IN IF EndsWith(Last(rel), <<"zs">>)
       THEN [r EXCEPT !.pc = "dc_lock", !.ret = "wb_body"]
       ELSE [r EXCEPT !.pc = "wb_body"]

\* Where the closure goes on after write_byml returned Ok(()).
AfterWriteByml(rec) ==
    [rec EXCEPT !.pc = IF rec.ctx = "member" THEN "members" ELSE "ok"]

Event(rel, kind, input, wrote, path, written) ==
    [rel |-> rel, kind |-> kind, input |-> input, wrote |-> wrote,
     path |-> path, written |-> written]

NoWrite(rel, kind, input) == Event(rel, kind, input, FALSE, <<>>, Raw(<<>>))

\* A worker takes the next file: the dispatch on its name (main.rs 145-155).
Take(f) ==
    /\ mainpc = "unpack"
    /\ task[f].pc = "queued"
    /\ ~stop
    /\ ActiveCount < NumWorkers
    /\ LET file == Catalog[f]
           rec == [task[f] EXCEPT !.name = file.name, !.base = <<file.name>>]
       IN IF IsBymlName(file.name)
          THEN IF file.readable
               THEN /\ task' = [task EXCEPT
                          ![f] = WriteBymlCall(rec, file.data, <<file.name>>, "file")]
                    /\ UNCHANGED <<stop, events>>
               ELSE /\ task' = [task EXCEPT ![f] = Failed(rec, "io", "none")]
                    /\ stop' = TRUE
                    /\ UNCHANGED events
          ELSE IF IsArchiveName(file.name)
          THEN IF file.readable
               THEN /\ task' = [task EXCEPT ![f] =
                          [rec EXCEPT !.pc = "dc_lock", !.ret = "sarc_new",
                                      !.data = file.data]]
                    /\ UNCHANGED <<stop, events>>
               ELSE /\ task' = [task EXCEPT ![f] = Failed(rec, "io", "none")]
                    /\ stop' = TRUE
                    /\ UNCHANGED events
          ELSE /\ task' = [task EXCEPT ![f] = [rec EXCEPT !.pc = "ok"]]
               /\ events' = events \cup {NoWrite(<<file.name>>, "ignored", file.data)}
               /\ UNCHANGED stop
    /\ UNCHANGED <<mainpc, bootstrap, bound, binds, lock, files, out, warnings>>

\* Mutant of LockFree: the context is used without taking its mutex.
LockIgnored(c) == TRUE

\* ---- Unpacker::decompress
LockFree(c) == lock[c] = 0

\* self.<category>_decomp.lock() (main.rs 73-81), then the loop starts.
DcLock(f) ==
    /\ task[f].pc = "dc_lock"
    /\ LockFree(CategoryOf(task[f].name))
    /\ lock' = [lock EXCEPT ![CategoryOf(task[f].name)] = f]
    /\ task' = [task EXCEPT ![f] =
          [@ EXCEPT !.pc = "dc_try", !.i = RetryStart, !.lastErr = "none",
                    !.tried = <<>>, !.call = task[f].data, !.res = "none"]]
    /\ UNCHANGED <<mainpc, bootstrap, bound, binds, files, stop, out, warnings, events>>

\* Mutant of NextMultiplier: every other multiplier is skipped.
SkipMultiplier(i) == i + 2

NextMultiplier(i) == i + 1

\* One pass of the loop body (main.rs 84-90); the guard is dropped when the
\* function returns.
DcAttempt(f) ==
    /\ task[f].pc = "dc_try"
    /\ task[f].i < RetryEnd
    /\ LET rec == task[f]
           c == CategoryOf(rec.name)
           r == CodecDecompress(bound[c], rec.data, Capacity(rec.data, rec.i))
           tried == Append(rec.tried, rec.i)
       IN IF r.ok
          THEN /\ task' = [task EXCEPT ![f] =
                     [rec EXCEPT !.pc = rec.ret, !.data = r.val, !.res = "ok",
                                 !.tried = tried]]
               /\ lock' = [lock EXCEPT ![c] = 0]
          ELSE /\ task' = [task EXCEPT ![f] =
                     [rec EXCEPT !.i = NextMultiplier(rec.i), !.lastErr = r.err,
                                 !.tried = tried]]
               /\ UNCHANGED lock
    /\ UNCHANGED <<mainpc, bootstrap, bound, binds, files, stop, out, warnings, events>>

\* Variant: the guard is not dropped on the failing return.
DcBailKeepsLock(f) ==
    /\ task[f].pc = "dc_try"
    /\ task[f].i >= RetryEnd
    /\ task' = [task EXCEPT ![f] =
          [Failed(@, "Failed to decompress", task[f].lastErr) EXCEPT
              !.res = "err"]]
    /\ stop' = TRUE
    /\ UNCHANGED <<mainpc, bootstrap, bound, binds, lock, files, out, warnings, events>>

\* The range is exhausted: eyre::bail!("Failed to decompress. {last_error:?}")
\* (main.rs 92), which every caller propagates with `?`.
DcBail(f) ==
    /\ task[f].pc = "dc_try"
    /\ task[f].i >= RetryEnd
    /\ task' = [task EXCEPT ![f] =
          [Failed(@, "Failed to decompress", task[f].lastErr) EXCEPT
              !.res = "err"]]
    /\ lock' = [lock EXCEPT ![CategoryOf(task[f].name)] = 0]
    /\ stop' = TRUE
    /\ UNCHANGED <<mainpc, bootstrap, bound, binds, files, out, warnings, events>>

\* ---- the effect of one step of a task on the shared state
StepOf(rec, writes, warns, evs) ==
    [rec |-> rec, writes |-> writes, warns |-> warns, evs |-> evs]

RECURSIVE FsWriteAll(_, _)
FsWriteAll(tree, writes) ==
    IF writes = <<>> THEN tree
    ELSE FsWriteAll(FsWrite(tree, Head(writes).path, Head(writes).data),
                    Tail(writes))

Commit(f, s) ==
    /\ task' = [task EXCEPT ![f] = s.rec]
    /\ out' = FsWriteAll(out, s.writes)
    /\ warnings' = warnings \cup s.warns
    /\ events' = events \cup s.evs
    /\ stop' = (stop \/ s.rec.pc = "err")
    /\ UNCHANGED <<mainpc, bootstrap, bound, binds, lock, files>>

Written(path, data) == <<[path |-> path, data |-> data]>>

Warning(kind, rel) == {[kind |-> kind, rel |-> rel]}

\* ---- Unpacker::write_byml, after the decompression (main.rs 100-132)
\* fsok: whether create_dir_all and fs::write succeed in this call.
WriteBymlStep(rec, fsok) ==
    LET d == rec.data
        rel == rec.rel
    IN IF ~HasBymlSignature(d)
       THEN StepOf(AfterWriteByml(rec), <<>>, {}, {NoWrite(rel, "unrecognized", d)})
       ELSE
       LET norm == Normalize(d.bytes)
           tree == BymlFromBinary(norm)
       IN IF tree.ok
          THEN LET text == ToYaml(tree.val)
                   path == DecodedPath(rel)
               IN IF ~fsok THEN StepOf(Failed(rec, "io", "none"), <<>>, {}, {})
                  ELSE IF text.ok
                  THEN StepOf(AfterWriteByml(rec), Written(path, text.val), {},
                              {Event(rel, "decoded", d, TRUE, path, text.val)})
                  ELSE StepOf(AfterWriteByml(rec), <<>>, Warning("dump", rel),
                              {NoWrite(rel, "noyaml", d)})
          ELSE LET path == FallbackPath(rel)
               IN IF ~fsok
                  THEN StepOf(Failed(rec, "io", "none"), <<>>,
                              Warning("parse", rel), {})
                  ELSE StepOf(AfterWriteByml(rec), Written(path, Raw(norm)),
                              Warning("parse", rel),
                              {Event(rel, "fallback", d, TRUE, path, Raw(norm))})

WriteBymlBody(f) ==
    /\ task[f].pc = "wb_body"
    /\ ~IndexPanics(task[f].data)
    /\ \E fsok \in BOOLEAN : Commit(f, WriteBymlStep(task[f], fsok))

\* &data[..2], data[3] = 4 or data[2] = 2 is out of range: the worker panics.
\* Whether the pool still starts the remaining items is left open.
WriteBymlPanic(f) ==
    /\ task[f].pc = "wb_body"
    /\ IndexPanics(task[f].data)
    /\ task' = [task EXCEPT ![f].pc = "panic"]
    /\ stop' \in {stop, TRUE}
    /\ UNCHANGED <<mainpc, bootstrap, bound, binds, lock, files, out, warnings, events>>

\* ---- the archive branch of the closure (main.rs 156-191)
SarcNewStep(rec) ==
    LET sarc == SarcNew(rec.data)
    IN IF sarc.ok
       THEN StepOf([rec EXCEPT !.pc = "members", !.members = NamedMembers(sarc.val)],
                   <<>>, {}, {})
       ELSE StepOf(Failed(rec, sarc.err, "none"), <<>>, {}, {})

OpenArchive(f) ==
    /\ task[f].pc = "sarc_new"
    /\ Commit(f, SarcNewStep(task[f]))

\* Variant: a message table that does not decode ends the closure with the
\* error, as a parameter archive does.
MemberStepMsbtStrict(rec0, fsok) ==
    LET m == Head(rec0.members)
        rec == [rec0 EXCEPT !.members = Tail(rec0.members)]
        rel == Join(rec.base, m.name)
        io == StepOf(Failed(rec, "io", "none"), <<>>, {}, {})
    IN IF IsBymlName(m.name)
       THEN StepOf(WriteBymlCall(rec, m.data, rel, "member"), <<>>, {}, {})
       ELSE IF IsAamp(m.data)
       THEN LET pio == AampFromBinary(m.data.bytes)
                path == WithExtension(rel, "yml")
            IN IF ~pio.ok THEN StepOf(Failed(rec, pio.err, "none"), <<>>, {}, {})
               ELSE IF ~fsok THEN io
               ELSE IF ~ToYaml(pio.val).ok
               THEN StepOf(Failed(rec, ToYaml(pio.val).err, "none"), <<>>, {}, {})
               ELSE StepOf(rec, Written(path, ToYaml(pio.val).val), {},
                           {Event(rel, "aamp", m.data, TRUE, path, ToYaml(pio.val).val)})
       ELSE IF IsMsbt(m.data)
       THEN LET msbt == MsytFromMsbtBytes(m.data.bytes)
                path == WithExtension(rel, "yml")
            IN IF ~msbt.ok
               THEN StepOf(Failed(rec, msbt.err, "none"), <<>>, {}, {})
               ELSE IF ~fsok THEN io
               ELSE IF ~ToYaml(msbt.val).ok
               THEN StepOf(rec, <<>>, Warning("msbt_dump", rel),
                           {NoWrite(rel, "msbt_noyaml", m.data)})
               ELSE StepOf(rec, Written(path, ToYaml(msbt.val).val), {},
                           {Event(rel, "msbt", m.data, TRUE, path, ToYaml(msbt.val).val)})
       ELSE IF ~fsok THEN io
       ELSE StepOf(rec, Written(rel, m.data), {},
                   {Event(rel, "opaque", m.data, TRUE, rel, m.data)})

\* One pass of the loop over the members, for the member m.
MemberStep(rec0, fsok) ==
    LET m == Head(rec0.members)
        rec == [rec0 EXCEPT !.members = Tail(rec0.members)]
        rel == Join(rec.base, m.name)
        io == StepOf(Failed(rec, "io", "none"), <<>>, {}, {})
    IN IF IsBymlName(m.name)
       THEN StepOf(WriteBymlCall(rec, m.data, rel, "member"), <<>>, {}, {})
       ELSE IF IsAamp(m.data)
       THEN LET pio == AampFromBinary(m.data.bytes)
                path == WithExtension(rel, "yml")
            IN IF ~pio.ok THEN StepOf(Failed(rec, pio.err, "none"), <<>>, {}, {})
               ELSE IF ~fsok THEN io
               ELSE IF ~ToYaml(pio.val).ok
               THEN StepOf(Failed(rec, ToYaml(pio.val).err, "none"), <<>>, {}, {})
               ELSE StepOf(rec, Written(path, ToYaml(pio.val).val), {},
                           {Event(rel, "aamp", m.data, TRUE, path, ToYaml(pio.val).val)})
       ELSE IF IsMsbt(m.data)
       THEN LET msbt == MsytFromMsbtBytes(m.data.bytes)
                path == WithExtension(rel, "yml")
            IN IF ~msbt.ok
               THEN StepOf(rec, <<>>, Warning("msbt_parse", rel),
                           {NoWrite(rel, "msbt_failed", m.data)})
               ELSE IF ~fsok THEN io
               ELSE IF ~ToYaml(msbt.val).ok
               THEN StepOf(rec, <<>>, Warning("msbt_dump", rel),
                           {NoWrite(rel, "msbt_noyaml", m.data)})
               ELSE StepOf(rec, Written(path, ToYaml(msbt.val).val), {},
                           {Event(rel, "msbt", m.data, TRUE, path, ToYaml(msbt.val).val)})
       ELSE IF ~fsok THEN io
       ELSE StepOf(rec, Written(rel, m.data), {},
                   {Event(rel, "opaque", m.data, TRUE, rel, m.data)})

NextMember(f) ==
    /\ task[f].pc = "members"
    /\ task[f].members # <<>>
    /\ \E fsok \in BOOLEAN : Commit(f, MemberStep(task[f], fsok))

\* The loop over the members ends and the closure returns Ok(()).
MembersDone(f) ==
    /\ task[f].pc = "members"
    /\ task[f].members = <<>>
    /\ Commit(f, StepOf([task[f] EXCEPT !.pc = "ok"], <<>>, {}, {}))

\* ---- the end of try_for_each and of unpack (main.rs 194-196)
Finish ==
    /\ mainpc = "unpack"
    /\ \A f \in files : ~Active(f)
    /\ stop \/ \A f \in files : task[f].pc # "queued"
    /\ mainpc' = IF \E f \in files : task[f].pc = "panic" THEN "panicked"
                 ELSE IF \E f \in files : task[f].pc = "err" THEN "unpack_failed"
                 ELSE "done"
    /\ UNCHANGED <<bootstrap, bound, binds, lock, files, task, stop, out, warnings, events>>

Next ==
    \/ InitDictsOpen
    \/ BindCommon
    \/ BindPack
    \/ BindMap
    \/ \E f \in files : Take(f)
    \/ \E f \in files : DcLock(f)
    \/ \E f \in files : DcAttempt(f)
    \/ \E f \in files : DcBail(f)
    \/ \E f \in files : WriteBymlBody(f)
    \/ \E f \in files : WriteBymlPanic(f)
    \/ \E f \in files : OpenArchive(f)
    \/ \E f \in files : NextMember(f)
    \/ \E f \in files : MembersDone(f)
    \/ Finish

Spec == Init /\ [][Next]_vars

\* ----------------------------------------- decompress as a call of its own
\* The contexts as a successful init_dicts leaves them.
BoundDicts ==
    [c \in Categories |->
        CASE c = "Common" -> DictZs
          [] c = "Pack" -> DictPack
          [] c = "Map" -> DictMap
          [] OTHER -> NoDict]

\* compress(blob) with the dictionary dict, clen bytes long: the frame the
\* codec turns back into blob.
Compress(blob, clen, dict) == Frame(clen, dict, Raw(blob))

\* The blobs drawn: runs of one byte of every length (the longer the run,
\* the higher the ratio) and the entry contents above.
Blobs ==
    {[k \in 1..n |-> 0] : n \in 0..MaxBlobLen} \cup {GoodBY, GoodYB, OtherSig}

\* One file name per branch of the category selection.
CallNames ==
    { <<"f", "bcett", "byml", "zs">>, <<"f", "pack", "zs">>,
      <<"f", "rsizetable", "zs">>, <<"f", "byml", "zs">>,
      <<"f", "sarc", "zs">>, <<"f", "bin", "zs">>, <<"pack", "zs">>,
      <<"bcett", "byml", "zs">>, <<"f", "pack", "bcett", "byml", "zs">> }

\* The data handed to decompress under a name: a frame made with the
\* dictionary of the name's category, a frame made with another dictionary,
\* or bytes that are no frame.
CallInputs(name) ==
    {Compress(b, n, BoundDicts[CategoryOf(name)]) :
        b \in Blobs, n \in 1..MaxCompLen}
    \cup {Compress(GoodBY, 1, Raw(<<9>>)), Raw(OtherSig), Raw(<<>>)}

InitDecompress ==
    /\ mainpc = "decompress"
    /\ bootstrap = BootFile(TRUE, Frame(2, NoDict, Sarc(BootMembers)))
    /\ bound = BoundDicts
    /\ lock = [c \in Categories |-> 0]
    /\ files = {1}
    /\ \E name \in CallNames : \E d \in CallInputs(name) :
          task = [f \in files |->
                    [Queued EXCEPT !.pc = "dc_lock", !.name = name, !.data = d,
                                   !.ret = "returned"]]
    /\ stop = FALSE
    /\ out = {}
    /\ warnings = {}
    /\ events = {}
    /\ binds = [c \in Categories |-> IF c = "Default" THEN 0 ELSE 1]

NextDecompress ==
    \/ \E f \in files : DcLock(f)
    \/ \E f \in files : DcAttempt(f)
    \/ \E f \in files : DcBail(f)

SpecDecompress == InitDecompress /\ [][NextDecompress]_vars

\* The run under a scheduler that lets a thread that can run do so: the
\* pool's workers and the main thread are operating-system threads.
InitFair == Init /\ Cardinality(files) <= MaxContenders

FairSpec == InitFair /\ [][Next]_vars /\ WF_vars(Next)

\* ------------------------------------------- write_byml called on its own
\* One call of write_byml on an uncompressed entry, for every content of up
\* to MaxEntryLen bytes over EntryBytes: the two signature letters, the two
\* marker values and a byte (255) that makes the body fail to decode.
EntryBytes == {66, 89, 2, 4, 255}

RECURSIVE Entries(_)
Entries(n) ==
    IF n = 0 THEN {<<>>}
    ELSE LET shorter == Entries(n - 1)
         IN shorter \cup {Append(b, x) : b \in {e \in shorter : Len(e) = n - 1},
                                        x \in EntryBytes}

InitWriteByml ==
    /\ mainpc = "write_byml"
    /\ bootstrap = BootFile(TRUE, Frame(2, NoDict, Sarc(BootMembers)))
    /\ bound = BoundDicts
    /\ lock = [c \in Categories |-> 0]
    /\ files = {1}
    /\ \E b \in Entries(MaxEntryLen) :
          task = [f \in files |->
                    WriteBymlCall(Queued, Raw(b), <<<<"f", "bgyml">>>>, "file")]
    /\ stop = FALSE
    /\ out = {}
    /\ warnings = {}
    /\ events = {}
    /\ binds = [c \in Categories |-> IF c = "Default" THEN 0 ELSE 1]

NextWriteByml ==
    \/ \E f \in files : WriteBymlBody(f)
    \/ \E f \in files : WriteBymlPanic(f)

SpecWriteByml == InitWriteByml /\ [][NextWriteByml]_vars

\* ================================================================ claims
RunEnded == mainpc \in {"done", "unpack_failed", "panicked"}

InitDictsSucceeded == mainpc = "unpack" \/ RunEnded

\* C1: when one discovered file fails with a per-entry error, every other
\* discovered file is still processed (none is left unstarted when the run
\* ends).  The code propagates the error with `?` out of try_for_each.
C1_FailureIsolated ==
    (RunEnded /\ \E f \in files : task[f].pc = "err")
        => \A g \in files : task[g].pc \in Terminal

\* C2: once init_dicts has succeeded, the run can only come to rest in its
\* final status "Done", with every discovered file at a terminal outcome.
C2_RunReachesDone ==
    InitDictsSucceeded
        => \/ ENABLED Next
           \/ mainpc = "done" /\ \A f \in files : task[f].pc \in Terminal

\* The mirrored path of an entry that keeps its extension: the entry's
\* relative path without the compression suffix of its name.
Mirrored(rel) ==
    IF Last(Last(rel)) = "zs"
    THEN Append(ButLast(rel), ButLast(Last(rel)))
    ELSE rel

\* C3: an entry routed to write_byml whose signature is neither "BY" nor
\* "YB" has its (decompressed) bytes written verbatim at its mirrored path.
C3_UnrecognizedPassedThrough ==
    \A e \in events :
        e.kind = "unrecognized"
            => \E o \in out : o.path = Mirrored(e.rel) /\ o.data = e.input

\* The bytes of an entry after decompression, when its name indicates
\* compression.
Plain(d, name) ==
    IF Last(name) = "zs" /\ d.kind = "zstd" THEN d.payload ELSE d

\* C4: every entry not subject to structured decoding, top-level file or
\* archive member, is written at its mirrored path with exactly its input
\* bytes (decompressed when the name indicates compression).
C4_OpaquePassthrough ==
    \A e \in events :
        e.kind \in {"ignored", "opaque"}
            => \E o \in out : /\ o.path = Mirrored(e.rel)
                              /\ o.data = Plain(e.input, Last(e.rel))

MarkerIndex(bytes) == IF SubSeq(bytes, 1, 2) = SigBY THEN 4 ELSE 3

MarkerValue(bytes) == IF SubSeq(bytes, 1, 2) = SigBY THEN 4 ELSE 2

SpecName(name, decoded) ==
    LET stripped == IF Last(name) = "zs" THEN ButLast(name) ELSE name
    IN IF decoded THEN NameWithExtension(stripped, "yml") ELSE stripped

SpecPath(rel, decoded) ==
    [k \in 1..Len(rel) |->
        IF k < Len(rel) THEN SpecName(rel[k], FALSE)
        ELSE SpecName(rel[k], decoded)]

\* C6: a decoded entry is written at its relative path with the compression
\* suffix stripped and the remaining extension replaced by yml, and archive
\* members are written under the archive's name without its compression
\* suffix (a.byml.zs -> a.yml, b.pack.zs -> b.pack/inner.yml, b.pack/raw.bin).
C6_OutputPathRule ==
    \A e \in events :
        e.kind \in {"decoded", "opaque"}
            => \E o \in out : /\ o.path = SpecPath(e.rel, e.kind = "decoded")
                              /\ o.data = e.written

\* ---- decompress
CallEnded(rec) == rec.res # "none"

\* The call's input is a frame made with the dictionary bound to the
\* category of its name.
Matching(rec) ==
    /\ rec.call.kind = "zstd"
    /\ rec.call.dict = BoundDicts[CategoryOf(rec.name)]

\* C7 (as stated): decompress(C, compress(blob)) returns exactly blob for
\* every ratio of blob length to compressed length.
C7_RoundTripAnyRatio ==
    \A f \in files :
        (CallEnded(task[f]) /\ Matching(task[f]))
            => task[f].res = "ok" /\ task[f].data = task[f].call.payload

\* C7 (amended): decompress(C, compress(blob)) returns exactly blob for
\* every blob whose length is at most 29 times the length of its compressed
\* form.
C7_RoundTripWithinRange ==
    \A f \in files :
        ( /\ CallEnded(task[f])
          /\ Matching(task[f])
          /\ DataLen(task[f].call.payload) <= 29 * DataLen(task[f].call) )
            => task[f].res = "ok" /\ task[f].data = task[f].call.payload

\* C7 witness: a round trip that the last multiplier of the range decided.
C7_Witness ==
    \E f \in files :
        /\ task[f].res = "ok"
        /\ Matching(task[f])
        /\ Last(task[f].tried) = 29
        /\ task[f].data = task[f].call.payload

\* What the codec answers to the k-th attempt of the call.
AttemptResult(rec, k) ==
    CodecDecompress(bound[CategoryOf(rec.name)], rec.call,
                    DataLen(rec.call) * rec.tried[k])

\* The escalation order with the last multiplier last: the attempts made so
\* far are the multipliers 2, 3, ... in order, one each, none above last;
\* all but a successful last one failed; a success returns that attempt's
\* output; an exhausted call tried every multiplier up to last and its error
\* carries the codec error of the attempt with last.
EscalationUpTo(rec, last) ==
    /\ rec.tried = [k \in 1..Len(rec.tried) |-> k + 1]
    /\ Len(rec.tried) <= last - 1
    /\ \A k \in 1..Len(rec.tried) - 1 : ~AttemptResult(rec, k).ok
    /\ rec.res = "none" /\ rec.tried # <<>>
          => ~AttemptResult(rec, Len(rec.tried)).ok
    /\ rec.res = "ok"
          => /\ rec.tried # <<>>
             /\ AttemptResult(rec, Len(rec.tried)).ok
             /\ rec.data = AttemptResult(rec, Len(rec.tried)).val
    /\ rec.res = "err"
          => /\ rec.tried = [k \in 1..(last - 1) |-> k + 1]
             /\ ~AttemptResult(rec, last - 1).ok
             /\ rec.err.cause = AttemptResult(rec, last - 1).err

\* C8 (as stated): the multipliers are 2, 3, ... up to 30.
C8_EscalationUpTo30 == \A f \in files : EscalationUpTo(task[f], 30)

\* C8 (amended): the multipliers are 2, 3, ... up to 29, in strictly
\* increasing order with one attempt each; the first attempt that succeeds
\* is returned and no further attempt is made; if all fail the error carries
\* the codec error of the last attempt.
C8_EscalationUpTo29 == \A f \in files : EscalationUpTo(task[f], 29)

\* C8 witness: a call that tried every multiplier of the range and failed.
C8_WitnessExhausted ==
    \E f \in files : task[f].res = "err" /\ Len(task[f].tried) = 28

\* C9: every call of decompress ends after at most 28 attempts: inside the
\* loop the next attempt or the final error is always possible, and a call
\* that reports success returns the whole content of the frame.
C9_Terminates ==
    \A f \in files :
        /\ Len(task[f].tried) <= 28
        /\ task[f].pc = "dc_try"
              => /\ task[f].i = Len(task[f].tried) + 2
                 /\ ENABLED (DcAttempt(f) \/ DcBail(f))
        /\ CallEnded(task[f]) => task[f].res \in {"ok", "err"}
        /\ task[f].res = "ok"
              => /\ task[f].data = task[f].call.payload
                 /\ DataLen(task[f].data) = DataLen(task[f].call.payload)

\* C9 witness: a call that ended in success at its 28th attempt.
C9_Witness ==
    \E f \in files :
        /\ task[f].res = "ok"
        /\ Len(task[f].tried) = 28
        /\ task[f].pc = "returned"

\* ---- the mutexes
InDecode(f, c) == task[f].pc = "dc_try" /\ CategoryOf(task[f].name) = c

\* C10: at most one task at a time is inside the decode loop of a category
\* and it is the holder of that category's mutex; a mutex is held only by a
\* task inside the decode loop of that very category, so a task waiting for
\* one category is never kept out by a task decoding with another.
C10_MutualExclusion ==
    \A c \in Categories :
        /\ Cardinality({f \in files : InDecode(f, c)}) <= 1
        /\ \A f \in files : InDecode(f, c) => lock[c] = f
        /\ lock[c] # 0 => lock[c] \in files /\ InDecode(lock[c], c)

\* C10 witness: two tasks inside the decode loop for two different
\* categories in one state, each holding its own category's mutex.
C10_Witness ==
    \E f, g \in files :
        /\ InDecode(f, "Common")
        /\ InDecode(g, "Pack")
        /\ lock["Common"] = f
        /\ lock["Pack"] = g

\* A task waits for the mutex of the category another task is decoding with.
ContentionReached ==
    \E f, h \in files :
        /\ InDecode(f, "Common")
        /\ task[h].pc = "dc_lock"
        /\ CategoryOf(task[h].name) = "Common"

\* C11: each of Common, Pack and Map has its dictionary set at most once,
\* only by init_dicts (the counts stand at exactly one from the moment
\* unpack starts until the run ends, and the bound dictionary is the one
\* the bootstrap archive holds for that category), no decompress attempt
\* runs against one of the three before its dictionary is set, and the
\* Default context never has a dictionary set on it.
DictOf(c) ==
    CASE c = "Common" -> SarcGetData(BootstrapSarc.val, NameZsDic).val
      [] c = "Pack"   -> SarcGetData(BootstrapSarc.val, NamePackDic).val
      [] c = "Map"    -> SarcGetData(BootstrapSarc.val, NameMapDic).val

C11_DictionaryBinding ==
    /\ binds["Default"] = 0 /\ bound["Default"] = NoDict
    /\ \A c \in Categories \ {"Default"} :
          /\ binds[c] <= 1
          /\ binds[c] = 0 <=> bound[c] = NoDict
          /\ InitDictsSucceeded => binds[c] = 1 /\ bound[c] = DictOf(c)
    /\ \A f \in files :
          /\ task[f].pc # "queued" => InitDictsSucceeded
          /\ task[f].pc = "dc_try" /\ CategoryOf(task[f].name) # "Default"
                => binds[CategoryOf(task[f].name)] = 1

\* A decompress attempt is running against each of the general and the map
\* context, every dictionary having been set once.
C11_Witness ==
    /\ \A c \in Categories \ {"Default"} : binds[c] = 1
    /\ \E f \in files :
          task[f].pc = "dc_try" /\ CategoryOf(task[f].name) = "Map"
    /\ \E f \in files :
          task[f].pc = "dc_try" /\ CategoryOf(task[f].name) = "Common"

\* C12: when the bootstrap archive cannot be read, cannot be decompressed
\* or opened as an archive, or lacks one of the three dictionaries, the run
\* never gets past init_dicts: no discovered file is ever started, nothing
\* is written and nothing is printed, whether or not some dictionaries had
\* already been set when the failure came.
HasBlob(sarc, name) ==
    \E k \in 1..Len(sarc.members) :
        sarc.members[k].named /\ sarc.members[k].name = name

BootstrapUsable ==
    /\ bootstrap.readable
    /\ bootstrap.data.kind = "zstd"
    /\ bootstrap.data.dict = NoDict
    /\ DataLen(bootstrap.data.payload) <= BootstrapMultiplier * DataLen(bootstrap.data)
    /\ bootstrap.data.payload.kind = "sarc"
    /\ \A name \in {NameZsDic, NamePackDic, NameMapDic} :
          HasBlob(bootstrap.data.payload, name)

Untouched ==
    /\ \A f \in files : task[f] = Queued
    /\ out = {} /\ warnings = {} /\ events = {} /\ ~stop
    /\ \A c \in Categories : lock[c] = 0

C12_BootstrapFailureFatal ==
    /\ ~BootstrapUsable =>
          /\ mainpc \in {"init_open", "bind_common", "bind_pack", "bind_map",
                          "init_failed"}
          /\ Untouched
    /\ mainpc = "init_failed" =>
          ~BootstrapUsable /\ Untouched /\ ~ENABLED Next

\* init_dicts has failed on the third dictionary, the first two being set
\* already, with files waiting in the source tree.
C12_Witness ==
    /\ mainpc = "init_failed"
    /\ bound["Common"] # NoDict /\ bound["Pack"] # NoDict
    /\ bound["Map"] = NoDict
    /\ files # {}

\* C13 (as stated): the context locked for a name is Map for the map
\* suffix, Pack for the pack suffix, and the dictionary-free Default for
\* every name with neither suffix.
Locked(f) == {c \in Categories : lock[c] = f}

MapSuffix(name) ==
    Len(name) > 3 /\ SubSeq(name, Len(name) - 2, Len(name)) = <<"bcett", "byml", "zs">>

PackSuffix(name) ==
    Len(name) > 2 /\ SubSeq(name, Len(name) - 1, Len(name)) = <<"pack", "zs">>

SizeTableSuffix(name) ==
    Len(name) > 2 /\ SubSeq(name, Len(name) - 1, Len(name)) = <<"rsizetable", "zs">>

C13_UnmatchedSelectsDefault ==
    \A f \in files : task[f].pc = "dc_try" =>
        Locked(f) = { IF MapSuffix(task[f].name) THEN "Map"
                      ELSE IF PackSuffix(task[f].name) THEN "Pack"
                      ELSE "Default" }

\* C13 (amended): the context locked is one of the four and depends on the
\* name's suffix only: Map for ".bcett.byml.zs", Pack for ".pack.zs",
\* Default for ".rsizetable.zs", and Common (the general dictionary) for
\* every other name.
C13_UnmatchedSelectsCommon ==
    \A f \in files : task[f].pc = "dc_try" =>
        Locked(f) = { IF MapSuffix(task[f].name) THEN "Map"
                      ELSE IF PackSuffix(task[f].name) THEN "Pack"
                      ELSE IF SizeTableSuffix(task[f].name) THEN "Default"
                      ELSE "Common" }

\* A name with none of the three suffixes is being decompressed under the
\* general context.
C13_Witness ==
    \E f \in files :
        /\ task[f].pc = "dc_try"
        /\ task[f].name = <<"f", "sarc", "zs">>
        /\ lock["Common"] = f

\* ---- the sequential run: the files taken one at a time in list order by
\* a single worker, every filesystem call succeeding.
RECURSIVE Decompressed(_, _, _)
Decompressed(name, d, i) ==
    IF i >= RetryEnd THEN Err("exhausted")
    ELSE LET r == CodecDecompress(BoundDicts[CategoryOf(name)], d, Capacity(d, i))
         IN IF r.ok THEN r ELSE Decompressed(name, d, NextMultiplier(i))

StartOf(f) ==
    LET file == Catalog[f]
        rec == [Queued EXCEPT !.name = file.name, !.base = <<file.name>>]
    IN IF ~(IsBymlName(file.name) \/ IsArchiveName(file.name))
       THEN [rec EXCEPT !.pc = "ok"]
       ELSE IF ~file.readable THEN Failed(rec, "io", "none")
       ELSE IF IsBymlName(file.name)
       THEN WriteBymlCall(rec, file.data, <<file.name>>, "file")
       ELSE [rec EXCEPT !.pc = "dc_lock", !.ret = "sarc_new", !.data = file.data]

RECURSIVE RunAlone(_, _)
RunAlone(rec, tree) ==
    CASE rec.pc \in Terminal -> [pc |-> rec.pc, tree |-> tree]
      [] rec.pc = "dc_lock" ->
            LET r == Decompressed(rec.name, rec.data, RetryStart)
            IN IF r.ok
               THEN RunAlone([rec EXCEPT !.pc = rec.ret, !.data = r.val], tree)
               ELSE [pc |-> "err", tree |-> tree]
      [] rec.pc = "wb_body" ->
            IF IndexPanics(rec.data) THEN [pc |-> "panic", tree |-> tree]
            ELSE LET s == WriteBymlStep(rec, TRUE)
                 IN RunAlone(s.rec, FsWriteAll(tree, s.writes))
      [] rec.pc = "sarc_new" -> RunAlone(SarcNewStep(rec).rec, tree)
      [] rec.pc = "members" ->
            IF rec.members = <<>> THEN [pc |-> "ok", tree |-> tree]
            ELSE LET s == MemberStep(rec, TRUE)
                 IN RunAlone(s.rec, FsWriteAll(tree, s.writes))

\* try_for_each on one thread: the items in order, up to the first that
\* does not return Ok.
RECURSIVE Sequential(_, _)
Sequential(todo, tree) ==
    IF todo = {} THEN tree
    ELSE LET f == CHOOSE x \in todo : \A y \in todo : x <= y
             r == RunAlone(StartOf(f), tree)
         IN IF r.pc = "ok" THEN Sequential(todo \ {f}, r.tree) ELSE r.tree

\* No create_dir_all or fs::write failed in this run: an "io" error is the
\* failed read of an unreadable source file.
NoWriteFailure ==
    \A f \in files :
        task[f].pc = "err" /\ task[f].err.msg = "io" => ~Catalog[f].readable

\* C14: whatever the number of workers and the interleaving, a run in
\* which the filesystem accepts every write ends with the output tree of
\* the sequential run over the same files, also when some files fail.
C14_SameAsSequential ==
    RunEnded /\ NoWriteFailure => out = Sequential(files, {})

\* The same for the runs in which no file fails: these do agree with the
\* sequential run.
NoFailureSameAsSequential ==
    mainpc = "done" /\ NoWriteFailure => out = Sequential(files, {})

\* C15: on an entry with the "BY" or the "YB" signature the normalization
\* keeps the length, changes at most one byte, keeps the two signature
\* bytes, gives the canonical form, leaves a canonical entry as it is, and
\* applied again changes nothing; the bytes write_byml writes back for an
\* entry that does not decode are these.
Canonical(bytes) == bytes[MarkerIndex(bytes)] = MarkerValue(bytes)

Repaired(b, n) ==
    /\ Len(n) = Len(b)
    /\ Cardinality({k \in 1..Len(b) : n[k] # b[k]}) <= 1
    /\ SubSeq(n, 1, 2) = SubSeq(b, 1, 2)
    /\ Canonical(n)
    /\ Canonical(b) => n = b

C15_MarkerRepairIdempotent ==
    /\ \A f \in files :
          (task[f].pc = "wb_body" /\ HasBymlSignature(task[f].data)
              /\ ~IndexPanics(task[f].data)) =>
             LET b == task[f].data.bytes
             IN /\ Repaired(b, Normalize(b))
                /\ Normalize(Normalize(b)) = Normalize(b)
    /\ \A e \in events : e.kind = "fallback" =>
          /\ Repaired(e.input.bytes, e.written.bytes)
          /\ Normalize(e.written.bytes) = e.written.bytes

\* An entry of the "YB" orientation already in canonical form did not
\* decode and was written back unchanged.
C15_Witness ==
    \E e \in events :
        /\ e.kind = "fallback"
        /\ SubSeq(e.input.bytes, 1, 2) = SigYB
        /\ Canonical(e.input.bytes)
        /\ e.written = e.input

\* C16: a message-table member that does not decode, or whose decoded
\* text does not serialize, gets a warning and no output file, and the
\* step that handles it raises no error: the task goes on with the
\* members after it, in order, and the run is not stopped.  (A failure of
\* create_dir_all, which comes before serialization is attempted, is the
\* filesystem's error and no serialization failure.)
MsbtMember(m) == ~IsBymlName(m.name) /\ ~IsAamp(m.data) /\ IsMsbt(m.data)

MsbtDecodeFails(m) == MsbtMember(m) /\ ~MsytFromMsbtBytes(m.data.bytes).ok

MsbtDumpFails(m) ==
    /\ MsbtMember(m)
    /\ MsytFromMsbtBytes(m.data.bytes).ok
    /\ ~ToYaml(MsytFromMsbtBytes(m.data.bytes).val).ok

MsbtFailureStep(f) ==
    LET m == Head(task[f].members)
        rel == Join(task[f].base, m.name)
    IN (/\ task[f].pc = "members" /\ task[f].members # <<>>
        /\ task'[f] # task[f]
        /\ \/ MsbtDecodeFails(m)
           \/ MsbtDumpFails(m) /\ task'[f].err.msg # "io")
       => /\ task'[f].pc = "members"
          /\ task'[f].members = Tail(task[f].members)
          /\ task'[f].err = task[f].err
          /\ stop' = stop
          /\ out' = out
          /\ \E w \in warnings' \ warnings : w.rel = rel

MsbtFailureLeftNothing ==
    \A e \in events : e.kind \in {"msbt_failed", "msbt_noyaml"} =>
        /\ ~e.wrote
        /\ \E w \in warnings : w.rel = e.rel
        /\ \A o \in out : o.path \notin {e.rel, WithExtension(e.rel, "yml")}

C16_MsbtFailureSkipped ==
    /\ []MsbtFailureLeftNothing
    /\ [][\A f \in files : MsbtFailureStep(f)]_vars

\* Both kinds of failure have happened in one archive and a later message
\* table of the same archive has been written.
C16_Witness ==
    /\ \E e \in events : e.kind = "msbt_failed"
    /\ \E e \in events : e.kind = "msbt_noyaml"
    /\ \E e \in events :
          e.kind = "msbt" /\ e.rel = <<<<"k", "sarc", "zs">>, <<"g", "msbt">>>>
    /\ \E o \in out : o.path = <<<<"k", "sarc", "zs">>, <<"g", "yml">>>>

\* C17: only a top-level file is ever opened as an archive: a member, also
\* one named like an archive, ends as one entry directly under its
\* archive; only named members are processed; the members of an archive
\* are handled in archive order by the task of their top-level file, one
\* at a time; and the tasks running at once never exceed the number of
\* top-level files.
MembersOf(f) ==
    IF IsArchiveName(Catalog[f].name) /\ Catalog[f].data.kind = "zstd"
          /\ Catalog[f].data.payload.kind = "sarc"
    THEN SelectSeq(Catalog[f].data.payload.members, LAMBDA m : m.named)
    ELSE <<>>

IsSuffix(s, t) ==
    Len(s) <= Len(t) /\ s = SubSeq(t, Len(t) - Len(s) + 1, Len(t))

TopLevel(e) == \E f \in files : e.rel = <<Catalog[f].name>>

\* The entry e is a named member of the archive f which the task of f has
\* already passed or is handling now.
MemberEntry(e, f) ==
    /\ Len(e.rel) = 2
    /\ e.rel[1] = Catalog[f].name
    /\ LET ms == MembersOf(f)
       IN \E k \in 1..(Len(ms) - Len(task[f].members)) : ms[k].name = e.rel[2]

C17_SingleLevelSequential ==
    /\ \A f \in files :
          /\ \/ task[f].pc = "sarc_new"
             \/ task[f].pc \in {"dc_lock", "dc_try"} /\ task[f].ret = "sarc_new"
             => /\ task[f].name = Catalog[f].name
                /\ task[f].ctx = "file"
                /\ task[f].members = <<>>
          /\ IsSuffix(task[f].members, MembersOf(f))
          /\ task[f].ctx = "member" =>
                Len(task[f].rel) = 2 /\ task[f].rel[1] = Catalog[f].name
    /\ \A e \in events : TopLevel(e) \/ \E f \in files : MemberEntry(e, f)
    /\ \A e \in events :
          (Len(e.rel) = 2 /\ IsArchiveName(e.rel[2])) =>
             e.kind \in {"opaque", "aamp", "msbt", "msbt_failed", "msbt_noyaml"}
    /\ \A o \in out : Len(o.path) <= 2
    /\ ActiveCount <= Cardinality(files)
    /\ ActiveCount <= NumWorkers

\* The member in.pack.zs of k.sarc.zs has been written out as it is, and the
\* archive that holds a member without a name has been gone through.
C17_Witness ==
    /\ \E e \in events :
          /\ e.rel = <<<<"k", "sarc", "zs">>, <<"in", "pack", "zs">>>>
          /\ e.kind = "opaque"
          /\ e.written = e.input /\ e.input.kind = "zstd"
    /\ \E f \in files :
          /\ Catalog[f].name = <<"b", "pack", "zs">>
          /\ task[f].pc = "ok"

\* C18: write_byml never indexes past the end of the entry: for every
\* length, 0 to 3 included, the call ends with the entry written or
\* skipped and no worker panics.
C18_NoIndexPanic == \A f \in files : task[f].pc # "panic"

\* C19: a task holds at most one category mutex, and holds it exactly
\* while it is inside the retry loop of decompress for a name of that
\* category: the mutex is taken, free, on entry to decompress and is free
\* again once decompress has returned, with the data or with the error.  No
\* mutex is held outside unpack.  Every state that is not the end of the run
\* has a step to take, and under fair scheduling the waiting comes to an
\* end: a task stops waiting only by getting the mutex, and from some point
\* on no task is waiting.
LockDiscipline ==
    /\ \A c \in Categories : lock[c] \in files \cup {0}
    /\ \A f \in files :
          /\ Cardinality(Locked(f)) <= 1
          /\ Locked(f) # {} <=> task[f].pc = "dc_try"
          /\ task[f].pc = "dc_try" => Locked(f) = {CategoryOf(task[f].name)}
    /\ mainpc # "unpack" => \A c \in Categories : lock[c] = 0

AcquiredOnEntry ==
    \A c \in Categories :
        lock'[c] # lock[c] =>
           \/ /\ lock[c] = 0
              /\ task[lock'[c]].pc = "dc_lock"
              /\ task'[lock'[c]].pc = "dc_try"
           \/ /\ lock'[c] = 0
              /\ task[lock[c]].pc = "dc_try"
              /\ task'[lock[c]].pc \in {task[lock[c]].ret, "err"}

NoDeadlock == mainpc = "init_failed" \/ RunEnded \/ ENABLED Next

Waiting(f) == task[f].pc = "dc_lock"

\* A task stops waiting only by getting the mutex it waits for.
WaitEndsHolding ==
    \A f \in files :
        Waiting(f) /\ task'[f] # task[f] =>
           task'[f].pc = "dc_try" /\ lock'[CategoryOf(task[f].name)] = f

C19_LockDisciplineAndProgress ==
    /\ []LockDiscipline
    /\ [][AcquiredOnEntry /\ WaitEndsHolding]_vars
    /\ []NoDeadlock
    /\ <>[](\A f \in files : ~Waiting(f))

\* A task waits for the mutex of the general context while another task
\* holds it.
C19_Witness ==
    \E f, h \in files :
        /\ lock["Common"] = f
        /\ task[h].pc = "dc_lock"
        /\ CategoryOf(task[h].name) = "Common"

====
